---------------------------- MODULE Spec2Model ----------------------------
(***************************************************************************)
(* A model of the live ASCII camera viewer (src/main.py).                  *)
(*                                                                         *)
(* Two threads share one FrameFetcher object:                              *)
(*   - the capture thread runs FrameFetcher.run;                           *)
(*   - the main (Tk) thread runs updateCanvas as a self-rescheduling       *)
(*     callback, the window's Configure events and the close handler.      *)
(*                                                                         *)
(* An image is a record [h, w, px]: h rows of w pixels, px the sequence of *)
(* its rows, so that the array element [y, x] is px[y + 1][x + 1]; a       *)
(* colour pixel is <<b, g, r>> (OpenCV's channel order), a grey pixel a    *)
(* number 0..255.  The grid the renderer works on is scaled down           *)
(* (RenderWidth cells instead of 150), everything else is computed as the  *)
(* code computes it.                                                       *)
(***************************************************************************)
EXTENDS Integers, Sequences, FiniteSets, TLC

(***************************************************************************)
(* Bounds of the model.                                                    *)
(***************************************************************************)
\* the width passed to resizeFrame at main.py:84 (150 there), scaled down
RenderWidth == 3
\* the sides of the small source frames resizeFrame is tried on, and the
\* small target widths
MaxSide == 5
MaxTargetWidth == 5

(***************************************************************************)
(* Program constants.                                                      *)
(***************************************************************************)
ASCII_CHARS == <<"@", "%", "#", "*", "+", "=", "-", ":", ".", " ">>
cellWidth == 5
cellHeight == 9
VisibleThreshold == 10
EdgeThreshold == 20
ColorStep == 64

\* Python's None, where a frame buffer [id, data] may stand
None == [id |-> "None"]

Max(a, b) == IF a >= b THEN a ELSE b
Min(a, b) == IF a <= b THEN a ELSE b
Abs(a) == IF a < 0 THEN 0 - a ELSE a
\* saturate_cast<uchar>
Saturate(v) == Max(0, Min(255, v))

\* the indices << y, x >> of an image
Positions(img) == (0 .. img.h - 1) \X (0 .. img.w - 1)

\* the array element img[y, x]
Pixel(img, y, x) == img.px[y + 1][x + 1]

\* the h x w image whose element [y, x] is F(y, x); appending the empty
\* sequence makes TLC build each row, and the rows, once
NewImage(h, w, F(_, _)) ==
    [h |-> h, w |-> w,
     px |-> [y \in 1 .. h |-> [x \in 1 .. w |-> F(y - 1, x - 1)] \o << >>] \o << >>]

(***************************************************************************)
(* applyGamma: the 256-entry table of main.py:34,                          *)
(* int((i / 255.0) ** (1.0 / 1.3) * 255), indexed from 0 (GammaTable[i+1]) *)
(* and applied to every channel by cv2.LUT.                                *)
(***************************************************************************)
GammaTable ==
    << 0, 3, 6, 8, 10, 12, 14, 16, 17, 19, 21, 22, 24, 25, 27, 28,
       30, 31, 33, 34, 35, 37, 38, 40, 41, 42, 44, 45, 46, 47, 49, 50,
       51, 52, 54, 55, 56, 57, 58, 60, 61, 62, 63, 64, 66, 67, 68, 69,
       70, 71, 72, 73, 75, 76, 77, 78, 79, 80, 81, 82, 83, 84, 85, 86,
       88, 89, 90, 91, 92, 93, 94, 95, 96, 97, 98, 99, 100, 101, 102, 103,
       104, 105, 106, 107, 108, 109, 110, 111, 112, 113, 114, 115, 116, 117, 118, 119,
       120, 121, 122, 123, 124, 125, 126, 126, 127, 128, 129, 130, 131, 132, 133, 134,
       135, 136, 137, 138, 139, 140, 140, 141, 142, 143, 144, 145, 146, 147, 148, 149,
       150, 150, 151, 152, 153, 154, 155, 156, 157, 158, 159, 159, 160, 161, 162, 163,
       164, 165, 166, 166, 167, 168, 169, 170, 171, 172, 173, 173, 174, 175, 176, 177,
       178, 179, 179, 180, 181, 182, 183, 184, 184, 185, 186, 187, 188, 189, 190, 190,
       191, 192, 193, 194, 195, 195, 196, 197, 198, 199, 200, 200, 201, 202, 203, 204,
       204, 205, 206, 207, 208, 209, 209, 210, 211, 212, 213, 213, 214, 215, 216, 217,
       218, 218, 219, 220, 221, 222, 222, 223, 224, 225, 226, 226, 227, 228, 229, 230,
       230, 231, 232, 233, 233, 234, 235, 236, 237, 237, 238, 239, 240, 241, 241, 242,
       243, 244, 244, 245, 246, 247, 248, 248, 249, 250, 251, 251, 252, 253, 254, 255 >>

applyGamma(img) ==
    NewImage(img.h, img.w,
             LAMBDA y, x : << GammaTable[Pixel(img, y, x)[1] + 1],
                              GammaTable[Pixel(img, y, x)[2] + 1],
                              GammaTable[Pixel(img, y, x)[3] + 1] >>)

(***************************************************************************)
(* Python's float arithmetic (main.py:14-15).  A float is an IEEE 754      *)
(* double: 53 significant bits, every operation rounded to the nearest     *)
(* double, ties to the even one.  A positive double is written             *)
(* [bits, exp]: bits its significant bits, least significant first and    *)
(* the last one 1, standing for the integer n, and the value n * 2^exp.    *)
(* Numbers beyond 31 bits are only ever handled as bit sequences or, to    *)
(* multiply and divide, as sequences of 9-bit limbs.                       *)
(***************************************************************************)
DoublePrecision == 53
LimbBits == 9
LimbBase == 512

RECURSIVE Pow2(_)
Pow2(k) == IF k = 0 THEN 1 ELSE 2 * Pow2(k - 1)

\* bit i and limb i of a number, 0 above its highest one
BitAt(bits, i) == IF i \in 1 .. Len(bits) THEN bits[i] ELSE 0
LimbAt(limbs, i) == IF i \in 1 .. Len(limbs) THEN limbs[i] ELSE 0

\* without the zeros above the highest 1
TrimBits(bits) ==
    IF \A i \in 1 .. Len(bits) : bits[i] = 0 THEN << >>
    ELSE SubSeq(bits, 1, CHOOSE i \in 1 .. Len(bits) :
                            bits[i] = 1 /\ \A k \in i + 1 .. Len(bits) : bits[k] = 0)

\* the bits of the integer 0 <= n < 2^30, least significant first
IntBits(n) == TrimBits([i \in 1 .. 30 |-> (n \div Pow2(i - 1)) % 2] \o << >>)

\* the limbs of a number of at most 54 bits, and the bits of its limbs
BitsLimbs(bits) ==
    [k \in 1 .. (Len(bits) + LimbBits - 1) \div LimbBits |->
        BitAt(bits, LimbBits * (k - 1) + 1)
            + 2 * BitAt(bits, LimbBits * (k - 1) + 2)
            + 4 * BitAt(bits, LimbBits * (k - 1) + 3)
            + 8 * BitAt(bits, LimbBits * (k - 1) + 4)
            + 16 * BitAt(bits, LimbBits * (k - 1) + 5)
            + 32 * BitAt(bits, LimbBits * (k - 1) + 6)
            + 64 * BitAt(bits, LimbBits * (k - 1) + 7)
            + 128 * BitAt(bits, LimbBits * (k - 1) + 8)
            + 256 * BitAt(bits, LimbBits * (k - 1) + 9)] \o << >>

LimbsBits(limbs) ==
    [i \in 1 .. LimbBits * Len(limbs) |->
        (limbs[(i - 1) \div LimbBits + 1] \div Pow2((i - 1) % LimbBits)) % 2] \o << >>

\* the integer a sequence of at most 30 bits stands for
BitsInt(bits) ==
    LimbAt(BitsLimbs(bits), 1)
        + LimbBase * LimbAt(BitsLimbs(bits), 2)
        + LimbBase * LimbBase * LimbAt(BitsLimbs(bits), 3)
        + LimbBase * LimbBase * LimbBase * LimbAt(BitsLimbs(bits), 4)

\* the bits of n + 1
BitsInc(bits) ==
    IF \A i \in 1 .. Len(bits) : bits[i] = 1
    THEN [i \in 1 .. Len(bits) + 1 |-> IF i = Len(bits) + 1 THEN 1 ELSE 0] \o << >>
    ELSE [i \in 1 .. Len(bits) |->
            IF \E k \in 1 .. i : bits[k] = 0
            THEN (IF \E k \in 1 .. i - 1 : bits[k] = 0 THEN bits[i] ELSE 1)
            ELSE 0] \o << >>

\* what the limb products a[i] * b[j] that fall on limb k of a * b add up
\* to, for numbers of at most six limbs
MulColumn(a, b, k) ==
    LimbAt(a, 1) * LimbAt(b, k)
        + LimbAt(a, 2) * LimbAt(b, k - 1)
        + LimbAt(a, 3) * LimbAt(b, k - 2)
        + LimbAt(a, 4) * LimbAt(b, k - 3)
        + LimbAt(a, 5) * LimbAt(b, k - 4)
        + LimbAt(a, 6) * LimbAt(b, k - 5)

RECURSIVE MulColumns(_, _, _, _)
\* the limbs of a * b from limb k on, carry coming from the limbs below
MulColumns(a, b, k, carry) ==
    IF k > Len(a) + Len(b) THEN << >>
    ELSE << (MulColumn(a, b, k) + carry) % LimbBase >>
            \o MulColumns(a, b, k + 1, (MulColumn(a, b, k) + carry) \div LimbBase)

\* the exact product of two integers of at most 54 bits
BitsMul(a, b) == TrimBits(LimbsBits(MulColumns(BitsLimbs(a), BitsLimbs(b), 1, 0)))

\* the double nearest to n * 2^exp, ties to even
RoundToDouble(bits, exp) ==
    IF Len(bits) <= DoublePrecision
    THEN [bits |-> bits, exp |-> exp]
    ELSE [bits |-> IF /\ bits[Len(bits) - DoublePrecision] = 1
                      /\ \/ \E i \in 1 .. Len(bits) - DoublePrecision - 1 : bits[i] = 1
                         \/ bits[Len(bits) - DoublePrecision + 1] = 1
                   THEN BitsInc(SubSeq(bits, Len(bits) - DoublePrecision + 1, Len(bits)))
                   ELSE SubSeq(bits, Len(bits) - DoublePrecision + 1, Len(bits)),
          exp  |-> exp + Len(bits) - DoublePrecision]

\* float(n) for an integer 0 < n < 2^30: exact
FloatOfInt(n) == [bits |-> IntBits(n), exp |-> 0]

\* x * y
FloatMul(x, y) == RoundToDouble(BitsMul(x.bits, y.bits), x.exp + y.exp)

RECURSIVE ShiftBelow(_, _)
\* for d <= n, the largest s with d * 2^s <= n
ShiftBelow(d, n) == IF 2 * d <= n THEN 1 + ShiftBelow(2 * d, n) ELSE 0

RECURSIVE ShiftAbove(_, _)
\* the least s with n * 2^s >= d
ShiftAbove(n, d) == IF n >= d THEN 0 ELSE 1 + ShiftAbove(2 * n, d)

RECURSIVE QuotientLimbs(_, _, _)
\* for r < d < 2^21, the first k limbs of r / d after the point, the first
\* one first
QuotientLimbs(r, d, k) ==
    IF k = 0 THEN << >>
    ELSE << (LimbBase * r) \div d >> \o QuotientLimbs((LimbBase * r) % d, d, k - 1)

RECURSIVE RemainderAfter(_, _, _)
\* what is left of r after those k limbs
RemainderAfter(r, d, k) ==
    IF k = 0 THEN r ELSE RemainderAfter((LimbBase * r) % d, d, k - 1)

\* a sequence back to front
Reverse(seq) == [i \in 1 .. Len(seq) |-> seq[Len(seq) + 1 - i]] \o << >>

\* for d <= n < 2 * d, the double nearest to (n / d) * 2^exp: one bit that
\* says whether anything is left after them, the 54 digits after the
\* point, and the leading 1, rounded to 53 bits
QuotientToDouble(n, d, exp) ==
    RoundToDouble(<< IF RemainderAfter(n - d, d, 6) = 0 THEN 0 ELSE 1 >>
                      \o LimbsBits(Reverse(QuotientLimbs(n - d, d, 6)))
                      \o << 1 >>,
                  exp - 6 * LimbBits - 1)

\* n / d for integers 0 < n, d < 2^20: int.__truediv__ rounds correctly
FloatDiv(n, d) ==
    IF n >= d
    THEN QuotientToDouble(n, d * Pow2(ShiftBelow(d, n)), ShiftBelow(d, n))
    ELSE QuotientToDouble(n * Pow2(ShiftAbove(n, d)), d, 0 - ShiftAbove(n, d))

\* int(x) for 0 < x < 2^30: the digits before the point
FloatToInt(x) ==
    IF x.exp >= 0 THEN BitsInt(x.bits) * Pow2(x.exp)
    ELSE IF 0 - x.exp >= Len(x.bits) THEN 0
    ELSE BitsInt(SubSeq(x.bits, 1 - x.exp, Len(x.bits)))

\* the literal 0.55: the double nearest to 55 / 100
Float055 == FloatDiv(55, 100)

(***************************************************************************)
(* resizeFrame: newHeight = int(newWidth * (height / width) * 0.55), then  *)
(* cv2.resize with INTER_NEAREST, which reads source pixel                 *)
(* (floor(y * height / newHeight), floor(x * width / newWidth)).           *)
(***************************************************************************)

\* faulty variant: the product rounded to the nearest integer
ResizedHeight_Rounded(height, width, newWidth) ==
    (2 * 11 * newWidth * height + 20 * width) \div (40 * width)

\* faulty variant: the factor 0.55 left out
ResizedHeight_Square(height, width, newWidth) ==
    FloatToInt(FloatMul(FloatOfInt(newWidth), FloatDiv(height, width)))

\* lines 14-15
ResizedHeight(height, width, newWidth) ==
    FloatToInt(FloatMul(FloatMul(FloatOfInt(newWidth), FloatDiv(height, width)),
                        Float055))

\* cv2.resize(img, (newWidth, newHeight), interpolation=cv2.INTER_NEAREST)
cvResize(img, newWidth, newHeight) ==
    NewImage(newHeight, newWidth,
             LAMBDA y, x : Pixel(img, (y * img.h) \div newHeight,
                                        (x * img.w) \div newWidth))

resizeFrame(img, newWidth) ==
    cvResize(img, newWidth, ResizedHeight(img.h, img.w, newWidth))

(***************************************************************************)
(* enhanceFrame.  OpenCV's default border is BORDER_REFLECT_101: index -1  *)
(* reads index 1 and index n reads index n-2 (index 0 when n = 1).         *)
(***************************************************************************)
Reflect101(i, n) ==
    IF n = 1 THEN 0
    ELSE IF i < 0 THEN 0 - i
    ELSE IF i >= n THEN 2 * n - 2 - i
    ELSE i

\* the pixel of img at row y, column x, read through the border rule
At(img, y, x) == Pixel(img, Reflect101(y, img.h), Reflect101(x, img.w))

\* cv2.GaussianBlur(img, (3, 3), 0): the separable kernel [1 2 1]/4 in
\* both directions, rounded to the nearest 8-bit value
BlurChannel(img, y, x, c) ==
    (   At(img, y - 1, x - 1)[c] + 2 * At(img, y - 1, x)[c] + At(img, y - 1, x + 1)[c]
      + 2 * At(img, y, x - 1)[c] + 4 * At(img, y, x)[c] + 2 * At(img, y, x + 1)[c]
      + At(img, y + 1, x - 1)[c] + 2 * At(img, y + 1, x)[c] + At(img, y + 1, x + 1)[c]
      + 8 ) \div 16

GaussianBlur(img) ==
    NewImage(img.h, img.w,
             LAMBDA y, x : << BlurChannel(img, y, x, 1),
                              BlurChannel(img, y, x, 2),
                              BlurChannel(img, y, x, 3) >>)

\* cv2.cvtColor(.., COLOR_BGR2GRAY) on 8-bit pixels: the 15-bit fixed point
\* luma 0.114 B + 0.587 G + 0.299 R, rounded
GrayOf(pixel) ==
    (pixel[1] * 3735 + pixel[2] * 19235 + pixel[3] * 9798 + 16384) \div 32768

cvtGray(img) == NewImage(img.h, img.w, LAMBDA y, x : GrayOf(Pixel(img, y, x)))

\* cv2.Laplacian(gray, CV_64F) with the default aperture, then
\* convertScaleAbs: |left + right + up + down - 4 * centre| saturated
LaplacianAbs(gray, y, x) ==
    Saturate(Abs(  At(gray, y, x - 1) + At(gray, y, x + 1)
                 + At(gray, y - 1, x) + At(gray, y + 1, x)
                 - 4 * At(gray, y, x)))

\* cv2.threshold(edges, 20, 255, THRESH_BINARY)
edgeMask(gray, y, x) == IF LaplacianAbs(gray, y, x) > EdgeThreshold THEN 255 ELSE 0

\* cv2.filter2D(blurred, -1, [[0,-1,0],[-1,5,-1],[0,-1,0]])
SharpenChannel(img, y, x, c) ==
    Saturate(  5 * At(img, y, x)[c]
             - At(img, y, x - 1)[c] - At(img, y, x + 1)[c]
             - At(img, y - 1, x)[c] - At(img, y + 1, x)[c])

\* np.where(edgeMaskColor == 255, sharpened, blurred), gray being the
\* grey image the edges are taken from
SharpenEdges(blurred, gray) ==
    NewImage(blurred.h, blurred.w,
             LAMBDA y, x :
                IF edgeMask(gray, y, x) = 255
                THEN << SharpenChannel(blurred, y, x, 1),
                        SharpenChannel(blurred, y, x, 2),
                        SharpenChannel(blurred, y, x, 3) >>
                ELSE Pixel(blurred, y, x))

\* lines 21-29, from the blurred img on
EnhanceBlurred(blurred) == SharpenEdges(blurred, cvtGray(blurred))

enhanceFrame(img) == EnhanceBlurred(GaussianBlur(img))

(***************************************************************************)
(* compressColor: each channel floored to a multiple of 64 and the three   *)
(* written as two lower-case hex digits each after a '#'.                  *)
(***************************************************************************)
HexDigits == <<"0", "1", "2", "3", "4", "5", "6", "7",
               "8", "9", "a", "b", "c", "d", "e", "f">>

\* the format spec 02x, for 0 <= n <= 255
Hex02(n) == HexDigits[(n \div 16) + 1] \o HexDigits[(n % 16) + 1]

\* faulty variant: each channel taken to the nearest level, not floored
compressColor_Nearest(r, g, b) ==
    LET r2 == Min(192, ((r + 32) \div ColorStep) * ColorStep)
        g2 == Min(192, ((g + 32) \div ColorStep) * ColorStep)
        b2 == Min(192, ((b + 32) \div ColorStep) * ColorStep)
    IN  "#" \o Hex02(r2) \o Hex02(g2) \o Hex02(b2)

compressColor(r, g, b) ==
    LET r2 == (r \div ColorStep) * ColorStep
        g2 == (g \div ColorStep) * ColorStep
        b2 == (b \div ColorStep) * ColorStep
    IN  "#" \o Hex02(r2) \o Hex02(g2) \o Hex02(b2)

(***************************************************************************)
(* The glyph index of main.py:100-101:                                     *)
(* int((brightness - 10) / (255 - 10) * (len(ASCII_CHARS) - 1)), clamped.  *)
(* int() truncates; the quotient is never negative here.                   *)
(***************************************************************************)
\* faulty variant: the quotient rounded to the nearest index
GlyphIndex_Rounded(brightness) ==
    LET idx == (2 * (brightness - VisibleThreshold) * (Len(ASCII_CHARS) - 1)
                    + (255 - VisibleThreshold))
                   \div (2 * (255 - VisibleThreshold))
    IN  Max(0, Min(Len(ASCII_CHARS) - 1, idx))

\* faulty variant: the ramp indexed from its bright end
GlyphIndex_Inverted(brightness) ==
    LET idx == ((255 - brightness) * (Len(ASCII_CHARS) - 1))
                   \div (255 - VisibleThreshold)
    IN  Max(0, Min(Len(ASCII_CHARS) - 1, idx))

GlyphIndex(brightness) ==
    LET idx == ((brightness - VisibleThreshold) * (Len(ASCII_CHARS) - 1))
                   \div (255 - VisibleThreshold)
    IN  Max(0, Min(Len(ASCII_CHARS) - 1, idx))


(***************************************************************************)
(* The frames the capture device can deliver: 4 x 3 pixels (the 4:3 shape  *)
(* of a 640 x 480 camera), every row the same.  A buffer's data is the     *)
(* name of the image it holds.                                             *)
(***************************************************************************)
RowFrame(ps) == NewImage(3, Len(ps), LAMBDA y, x : ps[x + 1])

Grey(v) == << v, v, v >>

FrameImage ==
    [black  |-> RowFrame(<< Grey(0), Grey(0), Grey(0), Grey(0) >>),
     grey   |-> RowFrame(<< Grey(128), Grey(128), Grey(128), Grey(128) >>),
     split  |-> RowFrame(<< Grey(0), Grey(0), Grey(128), Grey(128) >>),
     tinted |-> RowFrame(<< Grey(128), << 0, 0, 255 >>, Grey(0), Grey(0) >>)]

DeviceFrames == DOMAIN FrameImage

\* the sizes the drawing area takes once the window is mapped: the
\* geometry "900x600" (before that winfo_width and winfo_height are 1)
CanvasSizes == { << 900, 600 >> }

(***************************************************************************)
(* State.                                                                  *)
(***************************************************************************)
VARIABLES
    \* FrameFetcher
    isRunning,      \* self.isRunning
    camOpen,        \* whether self.cam is open (VideoCapture not released)
    currentFrame,   \* self.currentFrame: None or a buffer [id, data]
    lock,           \* self.lock: "free" or the thread holding it
    \* the capture thread (FrameFetcher.run)
    fpc,            \* its position
    fframe,         \* its local frame: the buffer the last read returned
    readOpen,       \* whether the device was open when the read in progress began
    \* the main thread (updateCanvas, the Tk events)
    rpc,            \* its position
    frame,          \* updateCanvas's local frame: what getFrame returned
    afterQueue,     \* callbacks root.after has scheduled and Tk has not run
    canvasSize,     \* << canvas.winfo_width(), canvas.winfo_height() >>
    \* renderAscii's closure and the canvas
    lastFrame,      \* dict pos -> << char, color >>
    charMap,        \* dict pos -> canvas item id
    items,          \* the canvas's text items, item id i at items[i]
    \* what the run has done so far (history, read by no action)
    tickOps,        \* the display operations of the latest updateCanvas
    lastTick,       \* << the data of the frame of the latest rendering tick >>, or << >>
    repeated,       \* the latest rendering tick had the glyph mapping of the one before
    seenBright,     \* the positions whose brightness was 10 or more in some tick
    stored,         \* << the data of the latest completed store >>, or << >>
    readFailed,     \* a device read has reported failure
    storedAfterFailure, \* a frame was stored after a read had reported failure
    \* one function of the program called on its own, outside a session
    call,           \* the call: [fn, args], args the arguments of its successive calls
    result          \* the values the calls made so far have returned, in order

fetcherVars == << isRunning, camOpen, currentFrame, lock, fpc, fframe, readOpen >>
mainVars == << rpc, frame, afterQueue, canvasSize >>
renderVars == << lastFrame, charMap, items >>
historyVars == << tickOps, lastTick, repeated, seenBright, stored, readFailed, storedAfterFailure >>
pureVars == << call, result >>
vars == << fetcherVars, mainVars, renderVars, historyVars, pureVars >>

Free == "free"
EmptyDict == << >>

\* a dict with key k set to v
DictSet(d, k, v) == [q \in (DOMAIN d) \cup {k} |-> IF q = k THEN v ELSE d[q]]

\* a segmentation fault ends the whole process
Alive == fpc # "crashed"

\* no function is called on its own during a session
NoCall == [fn |-> "none", args |-> << >>]

\* the program as main() starts it
Session ==
    /\ isRunning = TRUE
    /\ camOpen \in BOOLEAN          \* cv2.VideoCapture(0) may fail to open
    /\ currentFrame = None
    /\ lock = Free
    /\ fpc = "check"                \* fetcher.start()
    /\ fframe = None
    /\ readOpen = FALSE
    /\ rpc = "acquire"              \* renderAscii calls updateCanvas directly
    /\ frame = None
    /\ afterQueue = 0
    /\ canvasSize = << 1, 1 >>      \* winfo_width/height before the window is mapped
    /\ lastFrame = EmptyDict
    /\ charMap = EmptyDict
    /\ items = << >>
    /\ tickOps = << >>
    /\ lastTick = << >>
    /\ repeated = FALSE
    /\ seenBright = {}
    /\ stored = << >>
    /\ readFailed = FALSE
    /\ storedAfterFailure = FALSE

Init ==
    /\ Session
    /\ call = NoCall
    /\ result = << >>

(***************************************************************************)
(* The capture thread: FrameFetcher.run.                                   *)
(*   check    while self.isRunning                                         *)
(*   read     about to call self.cam.read()                                *)
(*   reading  inside self.cam.read()                                       *)
(*   acquire  success: entering "with self.lock"                           *)
(*   store    self.currentFrame = frame                                    *)
(*   release  leaving "with self.lock"                                     *)
(*   sleep    time.sleep(0.005)                                            *)
(*   done     the loop has ended and run has returned                      *)
(*   crashed  the process died inside the device read                      *)
(***************************************************************************)

\* faulty variant: an acquire that does not wait for the lock
CanAcquire_NoWait(l) == TRUE

\* threading.Lock: acquire blocks until the lock is free
CanAcquire(l) == l = Free

\* the buffer a successful cam.read() returns: a new array every time
ReadBuffer(data) == [id |-> "read", data |-> data]

\* faulty variant: "while True", the flag never looked at
KeepRunning_Always(flag) == TRUE

\* "while self.isRunning"
KeepRunning(flag) == flag

\* faulty variant: the failed read is skipped and the loop goes on
AfterFailedRead_Retry == "sleep"

\* faulty variant: "continue" in place of "break"
AfterFailedRead_Recheck == "check"

\* where run goes when cam.read() reports failure: "else: break"
AfterFailedRead == "done"

F_Check ==
    /\ fpc = "check"
    /\ fpc' = IF KeepRunning(isRunning) THEN "read" ELSE "done"
    /\ UNCHANGED << isRunning, camOpen, currentFrame, lock, fframe, readOpen >>
    /\ UNCHANGED << mainVars, renderVars, historyVars >>
    /\ UNCHANGED pureVars

F_ReadBegin ==
    /\ fpc = "read"
    /\ fpc' = "reading"
    /\ readOpen' = camOpen
    /\ UNCHANGED << isRunning, camOpen, currentFrame, lock, fframe >>
    /\ UNCHANGED << mainVars, renderVars, historyVars >>
    /\ UNCHANGED pureVars

\* cam.read() returns (True, frame)
F_ReadSuccess(data) ==
    /\ fpc = "reading"
    /\ readOpen
    /\ fpc' = "acquire"
    /\ fframe' = ReadBuffer(data)
    /\ UNCHANGED << isRunning, camOpen, currentFrame, lock, readOpen >>
    /\ UNCHANGED << mainVars, renderVars, historyVars >>
    /\ UNCHANGED pureVars

\* cam.read() returns (False, None): the device is not open, or fails
F_ReadFailure ==
    /\ fpc = "reading"
    /\ fpc' = AfterFailedRead
    /\ fframe' = None
    /\ readFailed' = TRUE
    /\ UNCHANGED << isRunning, camOpen, currentFrame, lock, readOpen >>
    /\ UNCHANGED << mainVars, renderVars, tickOps, lastTick, repeated, seenBright, stored, storedAfterFailure >>
    /\ UNCHANGED pureVars

\* stop() released the device while the read was inside it: VideoCapture
\* is not synchronised, and besides the two outcomes above the read may
\* touch the freed capture backend and kill the process
F_ReadCrash ==
    /\ fpc = "reading"
    /\ readOpen /\ ~camOpen
    /\ fpc' = "crashed"
    /\ UNCHANGED << isRunning, camOpen, currentFrame, lock, fframe, readOpen >>
    /\ UNCHANGED << mainVars, renderVars, historyVars >>
    /\ UNCHANGED pureVars

F_Acquire ==
    /\ fpc = "acquire"
    /\ CanAcquire(lock)
    /\ lock' = "fetcher"
    /\ fpc' = "store"
    /\ UNCHANGED << isRunning, camOpen, currentFrame, fframe, readOpen >>
    /\ UNCHANGED << mainVars, renderVars, historyVars >>
    /\ UNCHANGED pureVars

F_Store ==
    /\ fpc = "store"
    /\ currentFrame' = fframe
    /\ fpc' = "release"
    /\ stored' = << fframe.data >>
    /\ storedAfterFailure' = (storedAfterFailure \/ readFailed)
    /\ UNCHANGED << isRunning, camOpen, lock, fframe, readOpen >>
    /\ UNCHANGED << mainVars, renderVars, tickOps, lastTick, repeated, seenBright, readFailed >>
    /\ UNCHANGED pureVars

F_Release ==
    /\ fpc = "release"
    /\ lock' = Free
    /\ fpc' = "sleep"
    /\ UNCHANGED << isRunning, camOpen, currentFrame, fframe, readOpen >>
    /\ UNCHANGED << mainVars, renderVars, historyVars >>
    /\ UNCHANGED pureVars

F_Sleep ==
    /\ fpc = "sleep"
    /\ fpc' = "check"
    /\ UNCHANGED << isRunning, camOpen, currentFrame, lock, fframe, readOpen >>
    /\ UNCHANGED << mainVars, renderVars, historyVars >>
    /\ UNCHANGED pureVars

run ==
    \/ F_Check
    \/ F_ReadBegin
    \/ \E data \in DeviceFrames : F_ReadSuccess(data)
    \/ F_ReadFailure
    \/ F_ReadCrash
    \/ F_Acquire
    \/ F_Store
    \/ F_Release
    \/ F_Sleep


(***************************************************************************)
(* updateCanvas's work on one frame (main.py:83-120).                      *)
(***************************************************************************)

\* lines 83-86: the processed colour frame and its brightness map
WithGray(processed) == [processed |-> processed, gray |-> cvtGray(processed)]

Pipeline(raw) == WithGray(enhanceFrame(resizeFrame(applyGamma(raw), RenderWidth)))

\* the pipeline's result on each frame the device can deliver
Processed ==
    [black  |-> Pipeline(FrameImage.black),
     grey   |-> Pipeline(FrameImage.grey),
     split  |-> Pipeline(FrameImage.split),
     tinted |-> Pipeline(FrameImage.tinted)]

\* lines 89-90
Margin(extent, cells, cellSize) == Max(0, (extent - cells * cellSize) \div 2)

\* faulty variant: no brightness test, every cell is let through
Visible_Always(brightness) == TRUE

\* "if brightness < 10: continue" lets only these cells through
Visible(brightness) == brightness >= VisibleThreshold

\* faulty variant: a cell that is not let through is erased, its item blanked
SkipCell_Blank(st, pos) ==
    IF pos \in DOMAIN st.charMap
    THEN [st EXCEPT !.items[st.charMap[pos]].text = " ",
                    !.ops = Append(@, [op |-> "itemconfig", pos |-> pos,
                                       item |-> st.charMap[pos],
                                       text |-> " ", fill |-> "#000000"])]
    ELSE st

\* what the loop does to st for a cell it does not let through: nothing
SkipCell(st, pos) == st

\* faulty variant: the glyph drawn is not recorded
RecordLast_Forget(last, pos, glyph) == last

\* line 107: lastFrame[pos] = (char, color)
RecordLast(last, pos, glyph) == DictSet(last, pos, glyph)

\* lines 98-102: the glyph and the colour string of a visible cell
CellGlyph(img, x, y) ==
    LET pixel == Pixel(img.processed, y, x)     \* b, g, r = processed[y, x]
    IN  << ASCII_CHARS[GlyphIndex(Pixel(img.gray, y, x)) + 1],
           compressColor(pixel[3], pixel[2], pixel[1]) >>

\* faulty variant: no cell is ever taken as unchanged
SameAsLast_Never(last, pos, glyph) == FALSE

\* line 105: lastFrame.get(pos) == (char, color)
SameAsLast(last, pos, glyph) == pos \in DOMAIN last /\ last[pos] = glyph

\* faulty variant: the handle is never looked up, every draw creates an item
HasHandle_Never(cmap, pos) == FALSE

\* line 109: "if pos in charMap"
HasHandle(cmap, pos) == pos \in DOMAIN cmap

\* faulty variant: itemconfig is given the new text and not the new fill
DrawCell_TextOnly(st, pos, glyph, marginX, marginY) ==
    IF HasHandle(st.charMap, pos)
    THEN LET id == st.charMap[pos]
         IN  [lastFrame |-> RecordLast(st.lastFrame, pos, glyph),
              charMap   |-> st.charMap,
              items     |-> [st.items EXCEPT ![id].text = glyph[1]],
              ops       |-> Append(st.ops, [op |-> "itemconfig", pos |-> pos, item |-> id,
                                            text |-> glyph[1], fill |-> st.items[id].fill])]
    ELSE LET id == Len(st.items) + 1
         IN  [lastFrame |-> RecordLast(st.lastFrame, pos, glyph),
              charMap   |-> DictSet(st.charMap, pos, id),
              items     |-> Append(st.items, [x    |-> marginX + pos[1] * cellWidth,
                                              y    |-> marginY + pos[2] * cellHeight,
                                              text |-> glyph[1], fill |-> glyph[2]]),
              ops       |-> Append(st.ops, [op |-> "create_text", pos |-> pos, item |-> id,
                                            text |-> glyph[1], fill |-> glyph[2]])]

\* lines 104-120 for one visible cell whose glyph differs from the last one
\* drawn there; st is [lastFrame, charMap, items, ops]
DrawCell(st, pos, glyph, marginX, marginY) ==
    IF HasHandle(st.charMap, pos)
    THEN \* canvas.itemconfig(charMap[pos], text=char, fill=color)
         LET id == st.charMap[pos]
         IN  [lastFrame |-> RecordLast(st.lastFrame, pos, glyph),
              charMap   |-> st.charMap,
              items     |-> [st.items EXCEPT ![id].text = glyph[1], ![id].fill = glyph[2]],
              ops       |-> Append(st.ops, [op |-> "itemconfig", pos |-> pos, item |-> id,
                                            text |-> glyph[1], fill |-> glyph[2]])]
    ELSE \* charMap[pos] = canvas.create_text(...): the canvas numbers its items 1, 2, ..
         LET id == Len(st.items) + 1
         IN  [lastFrame |-> RecordLast(st.lastFrame, pos, glyph),
              charMap   |-> DictSet(st.charMap, pos, id),
              items     |-> Append(st.items, [x    |-> marginX + pos[1] * cellWidth,
                                              y    |-> marginY + pos[2] * cellHeight,
                                              text |-> glyph[1], fill |-> glyph[2]]),
              ops       |-> Append(st.ops, [op |-> "create_text", pos |-> pos, item |-> id,
                                            text |-> glyph[1], fill |-> glyph[2]])]

\* the body of the two loops for the cell in column x of row y
RenderCell(st, img, x, y, marginX, marginY) ==
    IF ~Visible(Pixel(img.gray, y, x))
    THEN SkipCell(st, << x, y >>)
    ELSE LET glyph == CellGlyph(img, x, y)
             pos   == << x, y >>
         IN  IF SameAsLast(st.lastFrame, pos, glyph)
             THEN st
             ELSE DrawCell(st, pos, glyph, marginX, marginY)

\* "for y in range(rows): for x in range(cols)": cell i of the scan, from 1
ScanX(i, cols) == (i - 1) % cols
ScanY(i, cols) == (i - 1) \div cols

RECURSIVE RenderLoop(_, _, _, _, _)
RenderLoop(st, img, i, marginX, marginY) ==
    IF i > img.gray.h * img.gray.w
    THEN st
    ELSE RenderLoop(RenderCell(st, img, ScanX(i, img.gray.w), ScanY(i, img.gray.w),
                               marginX, marginY),
                    img, i + 1, marginX, marginY)

\* the whole of lines 83-120 on a frame, from the dicts and the canvas as
\* they are; the result's ops are the display operations performed
RenderFrame(data, last, cmap, its, size) ==
    LET img == Processed[data]
    IN  RenderLoop([lastFrame |-> last, charMap |-> cmap, items |-> its, ops |-> << >>],
                   img, 1,
                   Margin(size[1], img.gray.w, cellWidth),
                   Margin(size[2], img.gray.h, cellHeight))

\* brightness = gray[y, x] for the frame with this data
Brightness(data, x, y) == Pixel(Processed[data].gray, y, x)

\* the positions (x, y) of the grid a frame is rendered on
Grid(data) == (0 .. Processed[data].gray.w - 1) \X (0 .. Processed[data].gray.h - 1)

\* the cells of a frame whose brightness is 10 or more
BrightCells(data) == { pos \in Grid(data) : Brightness(data, pos[1], pos[2]) >= 10 }

\* the sparse glyph mapping of a frame: those cells with glyph and colour
GlyphMapping(data) ==
    [pos \in BrightCells(data) |-> CellGlyph(Processed[data], pos[1], pos[2])]

(***************************************************************************)
(* The main thread.                                                        *)
(*   acquire       updateCanvas has called getFrame: entering the lock     *)
(*   copy          getFrame, inside "with self.lock"                       *)
(*   release       getFrame, leaving the lock and returning                *)
(*   render        updateCanvas from "if frame is None" to its end         *)
(*   idle          in root.mainloop(), between callbacks                   *)
(*   stop_release  onClose, in fetcher.stop() after the flag is cleared    *)
(*   destroy       onClose, after fetcher.stop()                           *)
(*   exited        the window is destroyed and sys.exit() has run          *)
(***************************************************************************)

\* faulty variant: getFrame returns self.currentFrame itself, no copy
getFrameResult_NoCopy(cur) == cur

\* what getFrame returns for self.currentFrame = cur
getFrameResult(cur) ==
    IF cur = None THEN None ELSE [id |-> "copy", data |-> cur.data]

\* faulty variant: getFrame returns with the lock still held
LockAfterGetFrame_Held == "main"

\* the lock once getFrame has left "with self.lock"
LockAfterGetFrame == Free

G_Acquire ==
    /\ Alive
    /\ rpc = "acquire"
    /\ CanAcquire(lock)
    /\ lock' = "main"
    /\ rpc' = "copy"
    /\ UNCHANGED << isRunning, camOpen, currentFrame, fpc, fframe, readOpen >>
    /\ UNCHANGED << frame, afterQueue, canvasSize >>
    /\ UNCHANGED << renderVars, historyVars >>
    /\ UNCHANGED pureVars

G_Copy ==
    /\ Alive
    /\ rpc = "copy"
    /\ frame' = getFrameResult(currentFrame)
    /\ rpc' = "release"
    /\ UNCHANGED << fetcherVars, afterQueue, canvasSize, renderVars, historyVars >>
    /\ UNCHANGED pureVars

G_Release ==
    /\ Alive
    /\ rpc = "release"
    /\ lock' = LockAfterGetFrame
    /\ rpc' = "render"
    /\ UNCHANGED << isRunning, camOpen, currentFrame, fpc, fframe, readOpen >>
    /\ UNCHANGED << frame, afterQueue, canvasSize >>
    /\ UNCHANGED << renderVars, historyVars >>
    /\ UNCHANGED pureVars

\* faulty variant: the activation returns without scheduling the next one
AfterNoFrame_Dropped(queue) == queue

\* line 80: root.after(1, updateCanvas) adds one callback to Tk's timers
AfterNoFrame(queue) == queue + 1

\* lines 79-81: no frame yet, run again after 1 ms
U_NoFrame ==
    /\ Alive
    /\ rpc = "render"
    /\ frame = None
    /\ afterQueue' = AfterNoFrame(afterQueue)
    /\ rpc' = "idle"
    /\ tickOps' = << >>
    /\ UNCHANGED << fetcherVars, frame, canvasSize, renderVars >>
    /\ UNCHANGED << lastTick, repeated, seenBright, stored, readFailed, storedAfterFailure >>
    /\ UNCHANGED pureVars

\* lines 83-122
U_Render ==
    /\ Alive
    /\ rpc = "render"
    /\ frame # None
    /\ LET st == RenderFrame(frame.data, lastFrame, charMap, items, canvasSize)
       IN  /\ lastFrame' = st.lastFrame
           /\ charMap' = st.charMap
           /\ items' = st.items
           /\ tickOps' = st.ops
    /\ lastTick' = << frame.data >>
    /\ repeated' = (lastTick # << >> /\ GlyphMapping(lastTick[1]) = GlyphMapping(frame.data))
    /\ seenBright' = seenBright \cup BrightCells(frame.data)
    /\ afterQueue' = afterQueue + 1
    /\ rpc' = "idle"
    /\ UNCHANGED << fetcherVars, frame, canvasSize, stored, readFailed, storedAfterFailure >>
    /\ UNCHANGED pureVars

\* Tk runs the callback root.after scheduled: a new activation of
\* updateCanvas, its local frame not yet bound
AfterFires ==
    /\ Alive
    /\ rpc = "idle"
    /\ afterQueue > 0
    /\ afterQueue' = afterQueue - 1
    /\ rpc' = "acquire"
    /\ frame' = None
    /\ tickOps' = << >>
    /\ UNCHANGED << fetcherVars, canvasSize, renderVars >>
    /\ UNCHANGED << lastTick, repeated, seenBright, stored, readFailed, storedAfterFailure >>
    /\ UNCHANGED pureVars

\* the window is mapped or resized: the canvas fills it
Configure(size) ==
    /\ Alive
    /\ rpc = "idle"
    /\ size # canvasSize
    /\ canvasSize' = size
    /\ UNCHANGED << fetcherVars, rpc, frame, afterQueue, renderVars, historyVars >>
    /\ UNCHANGED pureVars

\* onClose -> fetcher.stop(): self.isRunning = False
Stop_ClearFlag ==
    /\ Alive
    /\ rpc = "idle"
    /\ isRunning' = FALSE
    /\ rpc' = "stop_release"
    /\ UNCHANGED << camOpen, currentFrame, lock, fpc, fframe, readOpen >>
    /\ UNCHANGED << frame, afterQueue, canvasSize, renderVars, historyVars >>
    /\ UNCHANGED pureVars

\* fetcher.stop(): self.cam.release()
Stop_Release ==
    /\ Alive
    /\ rpc = "stop_release"
    /\ camOpen' = FALSE
    /\ rpc' = "destroy"
    /\ UNCHANGED << isRunning, currentFrame, lock, fpc, fframe, readOpen >>
    /\ UNCHANGED << frame, afterQueue, canvasSize, renderVars, historyVars >>
    /\ UNCHANGED pureVars

\* root.destroy() cancels the pending callbacks; sys.exit() ends the main
\* thread, and the interpreter waits for the capture thread
OnClose_Exit ==
    /\ Alive
    /\ rpc = "destroy"
    /\ afterQueue' = 0
    /\ rpc' = "exited"
    /\ UNCHANGED << fetcherVars, frame, canvasSize, renderVars, historyVars >>
    /\ UNCHANGED pureVars

updateCanvas == G_Acquire \/ G_Copy \/ G_Release \/ U_NoFrame \/ U_Render

onClose == Stop_ClearFlag \/ Stop_Release \/ OnClose_Exit

Next ==
    \/ run
    \/ updateCanvas
    \/ AfterFires
    \/ \E size \in CanvasSizes : Configure(size)
    \/ onClose

Spec == Init /\ [][Next]_vars


\* the operating system schedules the capture thread whenever it can run
FairSpec == Spec /\ WF_vars(run)

(***************************************************************************)
(* The glyph index on its own: lines 100-101 applied to the brightness of  *)
(* two cells, one after the other.                                         *)
(***************************************************************************)

\* the brightness of a cell the loop lets through (gray is 8 bits wide)
Brightnesses == VisibleThreshold .. 255

GlyphCalls ==
    { [fn |-> "GlyphIndex", args |-> p] :
        p \in { q \in Brightnesses \X Brightnesses : q[1] <= q[2] } }

\* idx of lines 100-101 for the next brightness
Call_GlyphIndex ==
    /\ call.fn = "GlyphIndex"
    /\ Len(result) < Len(call.args)
    /\ result' = Append(result, GlyphIndex(call.args[Len(result) + 1]))
    /\ UNCHANGED << fetcherVars, mainVars, renderVars, historyVars, call >>

GlyphInit ==
    /\ Session
    /\ camOpen
    /\ call \in GlyphCalls
    /\ result = << >>

GlyphSpec == GlyphInit /\ [][Call_GlyphIndex]_vars

(***************************************************************************)
(* compressColor on its own: called on a colour, then on the colour its    *)
(* result names.                                                           *)
(***************************************************************************)

\* the value of a channel of processed[y, x] (8 bits wide)
Channels == 0 .. 255

\* the values of the other two channels while one runs through Channels
ChannelSamples == { 0, 63, 64, 255 }

ColourInputs ==
    { << v, a, b >> : v \in Channels, a \in ChannelSamples, b \in ChannelSamples }
        \cup { << a, v, b >> : v \in Channels, a \in ChannelSamples, b \in ChannelSamples }
        \cup { << a, b, v >> : v \in Channels, a \in ChannelSamples, b \in ChannelSamples }

ColourCalls == { [fn |-> "compressColor", args |-> << c >>] : c \in ColourInputs }

\* the number a hex digit stands for, and the channels of a '#rrggbb' string
HexValue(digit) == CHOOSE n \in 0 .. 15 : HexDigits[n + 1] = digit
ParseHex2(str, k) == 16 * HexValue(SubSeq(str, k, k)) + HexValue(SubSeq(str, k + 1, k + 1))
ParseColor(str) == << ParseHex2(str, 2), ParseHex2(str, 4), ParseHex2(str, 6) >>

\* color = compressColor(r, g, b)
Call_compressColor ==
    /\ call.fn = "compressColor"
    /\ result = << >>
    /\ result' = << compressColor(call.args[1][1], call.args[1][2], call.args[1][3]) >>
    /\ UNCHANGED << fetcherVars, mainVars, renderVars, historyVars, call >>

\* compressColor again, on the channels of the colour it returned
Call_compressColorAgain ==
    /\ call.fn = "compressColor"
    /\ Len(result) = 1
    /\ LET c == ParseColor(result[1])
       IN  result' = Append(result, compressColor(c[1], c[2], c[3]))
    /\ UNCHANGED << fetcherVars, mainVars, renderVars, historyVars, call >>

ColourInit ==
    /\ Session
    /\ camOpen
    /\ call \in ColourCalls
    /\ result = << >>

ColourNext == Call_compressColor \/ Call_compressColorAgain

ColourSpec == ColourInit /\ [][ColourNext]_vars

(***************************************************************************)
(* resizeFrame on its own: the shape of the frame it returns for a source  *)
(* frame of a given shape and a target width.                              *)
(***************************************************************************)

\* << height, width >> of the source frames: every small shape, the usual
\* camera modes, and a narrow upright frame
SourceShapes ==
    ((1 .. MaxSide) \X (1 .. MaxSide))
        \cup { << 480, 640 >>, << 720, 1280 >>, << 1080, 1920 >>, << 146, 15 >> }

\* newWidth: small widths and the 150 of main.py:12 and main.py:84
TargetWidths == (1 .. MaxTargetWidth) \cup { 150 }

ResizeCalls ==
    { [fn |-> "resizeFrame", args |-> << shape[1], shape[2], newWidth >>] :
        shape \in SourceShapes, newWidth \in TargetWidths }

\* the shape of what cv2.resize(frame, (newWidth, newHeight)) returns; it
\* raises cv2.error when the size asked for is empty
ResizedShape(height, width, newWidth) ==
    IF ResizedHeight(height, width, newWidth) > 0
    THEN [ok |-> TRUE, h |-> ResizedHeight(height, width, newWidth), w |-> newWidth]
    ELSE [ok |-> FALSE]

\* resized = resizeFrame(frame, newWidth)
Call_resizeFrame ==
    /\ call.fn = "resizeFrame"
    /\ result = << >>
    /\ result' = << ResizedShape(call.args[1], call.args[2], call.args[3]) >>
    /\ UNCHANGED << fetcherVars, mainVars, renderVars, historyVars, call >>

ResizeInit ==
    /\ Session
    /\ camOpen
    /\ call \in ResizeCalls
    /\ result = << >>

ResizeSpec == ResizeInit /\ [][Call_resizeFrame]_vars

(***************************************************************************)
(* The shared frame: claims C1 - C5.                                       *)
(***************************************************************************)

\* the capture thread is inside "with self.lock" (main.py:57-58)
InStore == fpc \in { "store", "release" }

\* the main thread is inside getFrame's "with self.lock" (main.py:64-65)
InCopy == rpc \in { "copy", "release" }

\* C1: in every interleaving of the capture thread and getFrame, the store
\* of currentFrame and the copy-out are never inside their critical
\* sections together, and the copy getFrame is about to return is, whole,
\* the frame that is stored (never part of one frame and part of another).
C1_MutualExclusion ==
    /\ ~(InStore /\ InCopy)
    /\ (rpc = "release" /\ frame # None) =>
            /\ currentFrame # None
            /\ frame.data = currentFrame.data
            /\ stored = << frame.data >>

\* getFrame is copying a stored frame while the capture thread, holding
\* the next frame, waits for the lock
C1_Witness ==
    /\ rpc = "release" /\ frame # None
    /\ fpc = "acquire" /\ fframe # None /\ fframe.data # frame.data

\* C2: getFrame returns None exactly when no device read has stored a
\* frame yet; otherwise it returns the contents of the most recent
\* completed store, in a buffer of its own, distinct from the stored one:
\* no step of the capture thread changes the frame updateCanvas holds, and
\* no step of updateCanvas changes the stored frame.
C2_ReturnsOwnedCopy ==
    /\ [](rpc = "release" => /\ (frame = None <=> stored = << >>)
                             /\ (frame # None => stored = << frame.data >>))
    /\ []((frame # None /\ currentFrame # None) => frame.id # currentFrame.id)
    /\ [][run => frame' = frame]_vars
    /\ [][updateCanvas => currentFrame' = currentFrame]_vars

\* updateCanvas holds the copy of an older frame while a newer one,
\* different from it, is stored
C2_Witness ==
    /\ rpc = "render" /\ frame # None
    /\ currentFrame # None /\ currentFrame.data # frame.data
    /\ frame.id = "copy" /\ currentFrame.id = "read"

\* C3: once a device read has reported failure the capture loop has ended
\* and never runs again (no retry), currentFrame is never written again,
\* and a getFrame returns the last frame stored before the failure, or
\* None if there was none.
C3_FailureIsTerminal ==
    /\ [](readFailed => fpc = "done")
    /\ [](~storedAfterFailure)
    /\ [][readFailed => (currentFrame' = currentFrame /\ readFailed')]_vars
    /\ []((readFailed /\ rpc = "release") =>
              IF stored = << >> THEN frame = None
              ELSE frame # None /\ frame.data = stored[1])

\* a getFrame after a read failed in a running session returns the last
\* good frame
C3_Witness ==
    /\ readFailed /\ isRunning /\ fpc = "done"
    /\ rpc = "release" /\ frame # None /\ stored = << frame.data >>

\* C4: the lock is held only while the capture thread stores a frame and
\* while getFrame copies one: never by the capture thread in the device
\* read or the sleep, never by the main thread in the rest of
\* updateCanvas (gamma, resize, enhance, glyph mapping, drawing).
C4_LockOnlyAroundStoreAndCopy ==
    /\ lock = "fetcher" <=> InStore
    /\ lock = "main" <=> InCopy
    /\ fpc \in { "read", "reading", "sleep" } => lock # "fetcher"
    /\ rpc \in { "render", "idle" } => lock # "main"

\* the capture thread stores a new frame while updateCanvas is about to
\* work on the one it holds
C4_Witness ==
    /\ rpc = "render" /\ frame # None
    /\ fpc = "store" /\ lock = "fetcher"

\* C5: once stop() has cleared the flag the capture loop eventually ends
\* (run returns, or the process has died in the device read), wherever
\* the capture thread was, if the capture thread keeps being scheduled.
C5_StopEndsCapture == (~isRunning) ~> (fpc \in { "done", "crashed" })

\* stop() clears the flag while the capture thread is inside a device
\* read that began with the device open
C5_Witness == ~isRunning /\ rpc = "stop_release" /\ fpc = "reading" /\ readOpen


(***************************************************************************)
(* The diff renderer: claims C6 - C10.                                     *)
(***************************************************************************)

\* a step that is one activation of updateCanvas rendering a frame
Tick == rpc = "render" /\ frame # None /\ rpc' = "idle"

\* the display operations among ops that are on position pos
OpsOn(ops, pos) == SelectSeq(ops, LAMBDA o : o.pos = pos)

\* the glyph and colour the frame with this data gives position pos
GlyphAt(data, pos) == CellGlyph(Processed[data], pos[1], pos[2])

\* the positions of the grid (every frame is rendered on the same one)
AllPositions == UNION { Grid(data) : data \in DeviceFrames }

\* C6: if a position was drawn in an earlier tick and its brightness in
\* this tick is below 10, the tick performs no create_text and no
\* itemconfig on it and leaves its lastFrame entry, its handle and the
\* glyph and colour on screen as they were.
C6_DarkCellKeepsGlyph ==
    [][Tick =>
        \A pos \in seenBright \cap Grid(frame.data) :
            Brightness(frame.data, pos[1], pos[2]) < 10 =>
                /\ OpsOn(tickOps', pos) = << >>
                /\ pos \in DOMAIN lastFrame /\ pos \in DOMAIN lastFrame'
                /\ lastFrame'[pos] = lastFrame[pos]
                /\ pos \in DOMAIN charMap /\ pos \in DOMAIN charMap'
                /\ charMap'[pos] = charMap[pos]
                /\ charMap[pos] \in 1 .. Len(items)
                /\ Len(items') >= Len(items)
                /\ items'[charMap[pos]] = items[charMap[pos]]
    ]_vars

\* the grey frame drew "=" at (0, 0); the split frame, dark there, was
\* rendered after it and the "=" is still shown
C6_Witness ==
    /\ rpc = "idle" /\ lastTick = << "split" >>
    /\ Brightness("split", 0, 0) < 10
    /\ << 0, 0 >> \in DOMAIN lastFrame /\ lastFrame[<< 0, 0 >>] = GlyphAt("grey", << 0, 0 >>)
    /\ items[charMap[<< 0, 0 >>]].text = "="
    /\ tickOps # << >>

\* C7: when a rendering tick has the same glyph mapping as the rendering
\* tick before it, it performs no display operation and leaves lastFrame,
\* charMap and the canvas items unchanged.
C7_SameMappingNoOps ==
    [][(Tick /\ lastTick # << >>
             /\ GlyphMapping(lastTick[1]) = GlyphMapping(frame.data)) =>
        /\ tickOps' = << >>
        /\ lastFrame' = lastFrame
        /\ charMap' = charMap
        /\ items' = items
    ]_vars

\* the grey frame was rendered twice in a row: every cell has its item and
\* the second tick did nothing
C7_Witness ==
    /\ rpc = "idle" /\ repeated /\ lastTick = << "grey" >>
    /\ Len(items) = Cardinality(Grid("grey")) /\ tickOps = << >>

\* C8: within one tick a display operation is performed on a position if
\* and only if its brightness is 10 or more and lastFrame has no entry
\* for it or an entry other than the new (glyph, colour); then exactly one
\* is performed, create_text if the position has no handle and itemconfig
\* on its handle otherwise, with the new glyph and colour, and lastFrame
\* records them.  No position gets more than one operation.
C8_OneOpPerChangedCell ==
    [][Tick =>
        /\ \A i \in 1 .. Len(tickOps') : tickOps'[i].pos \in Grid(frame.data)
        /\ \A pos \in Grid(frame.data) :
            LET ops   == OpsOn(tickOps', pos)
                glyph == GlyphAt(frame.data, pos)
            IN  IF /\ Brightness(frame.data, pos[1], pos[2]) >= 10
                   /\ (pos \notin DOMAIN lastFrame \/ lastFrame[pos] # glyph)
                THEN /\ Len(ops) = 1
                     /\ ops[1].text = glyph[1] /\ ops[1].fill = glyph[2]
                     /\ IF pos \in DOMAIN charMap
                        THEN ops[1].op = "itemconfig" /\ ops[1].item = charMap[pos]
                        ELSE ops[1].op = "create_text"
                     /\ pos \in DOMAIN lastFrame' /\ lastFrame'[pos] = glyph
                ELSE ops = << >>
    ]_vars

\* one tick created an item for one position, reconfigured the item of
\* another and left a third position alone
C8_Witness ==
    /\ rpc = "idle" /\ frame # None
    /\ \E i, j \in 1 .. Len(tickOps) :
            tickOps[i].op = "create_text" /\ tickOps[j].op = "itemconfig"
    /\ \E pos \in Grid(frame.data) : OpsOn(tickOps, pos) = << >>

\* C9: lastFrame has an entry for a position exactly when some tick found
\* its brightness 10 or more, and charMap has the same keys: a position
\* dark in every tick has no entry and no handle, and while no tick has
\* found a visible cell the canvas has no item.
C9_EntriesAreVisibleCells ==
    /\ DOMAIN lastFrame = seenBright
    /\ DOMAIN charMap = DOMAIN lastFrame
    /\ seenBright = {} => (items = << >> /\ tickOps = << >>)

\* after a frame with visible cells a black frame was rendered, and the
\* position (0, 0), dark in every tick, has no entry
C9_Witness ==
    /\ rpc = "idle" /\ lastTick = << "black" >>
    /\ seenBright # {} /\ << 0, 0 >> \notin seenBright
    /\ << 0, 0 >> \notin DOMAIN lastFrame

\* C10: at most one item is ever created per position: create_text only
\* for a position without a handle, itemconfig on the position's own
\* handle otherwise; no handle is deleted or replaced, so charMap only
\* grows and has at most one entry per grid position.
C10_OneHandlePerPosition ==
    /\ [](/\ Len(items) = Cardinality(DOMAIN charMap)
          /\ DOMAIN charMap \subseteq AllPositions
          /\ \A p \in DOMAIN charMap : charMap[p] \in 1 .. Len(items)
          /\ \A p, q \in DOMAIN charMap : p # q => charMap[p] # charMap[q])
    /\ [][/\ Len(items') >= Len(items)
          /\ \A p \in DOMAIN charMap :
                p \in DOMAIN charMap' /\ charMap'[p] = charMap[p]]_vars
    /\ [][Tick =>
            \A i \in 1 .. Len(tickOps') :
                IF tickOps'[i].pos \in DOMAIN charMap
                THEN /\ tickOps'[i].op = "itemconfig"
                     /\ tickOps'[i].item = charMap[tickOps'[i].pos]
                ELSE /\ tickOps'[i].op = "create_text"
                     /\ tickOps'[i].item > Len(items)]_vars

\* every position has its item, and the latest tick changed one of them in
\* place
C10_Witness ==
    /\ rpc = "idle"
    /\ DOMAIN charMap = AllPositions /\ Len(items) = Cardinality(AllPositions)
    /\ \E i \in 1 .. Len(tickOps) :
            tickOps[i].op = "itemconfig" /\ tickOps[i].item = charMap[tickOps[i].pos]


(***************************************************************************)
(* Layout, glyph ramp, colour and resize: claims C11 - C16.                *)
(***************************************************************************)

\* the canvas coordinates that centre position pos of the grid of the
\* frame with this data in a drawing area of this size (main.py:89-90,
\* 113-114)
CentredAt(data, size, pos) ==
    << Margin(size[1], Processed[data].gray.w, cellWidth) + pos[1] * cellWidth,
       Margin(size[2], Processed[data].gray.h, cellHeight) + pos[2] * cellHeight >>

\* C11: at the end of every rendering tick every item a position has is at
\* margin + (x * cellWidth, y * cellHeight), the margins being those that
\* centre the grid in the drawing area as it is at that tick.
C11_HandlesAtCentredMargin ==
    [][Tick =>
        \A pos \in DOMAIN charMap' :
            << items'[charMap'[pos]].x, items'[charMap'[pos]].y >>
                = CentredAt(frame.data, canvasSize, pos)
    ]_vars

\* the ramp's last index
LastGlyph == Len(ASCII_CHARS) - 1

\* (b - 10) / (255 - 10) * (rampLength - 1) rounded to the nearest integer
\* (it is never half-way between two) and clamped to the ramp
RoundedIndex(b) ==
    Max(0, Min(LastGlyph, (2 * (b - 10) * LastGlyph + (255 - 10)) \div (2 * (255 - 10))))

\* C12, as stated: for every brightness b in 10..255 the glyph index is
\* round((b - 10) / (255 - 10) * (rampLength - 1)) clamped to the ramp.
C12_GlyphIndexRounds ==
    call.fn = "GlyphIndex" =>
        \A i \in 1 .. Len(result) : result[i] = RoundedIndex(call.args[i])

\* C12, amended: for every brightness b in 10..255 the glyph index is the
\* integer part of (b - 10) / (255 - 10) * (rampLength - 1), the largest
\* idx with idx * 245 <= (b - 10) * 9; it lies in 0..9 without the clamp
\* and is 9 for b = 255 only.
C12_GlyphIndexTruncates ==
    call.fn = "GlyphIndex" =>
        \A i \in 1 .. Len(result) :
            /\ result[i] \in 0 .. LastGlyph
            /\ result[i] * (255 - 10) <= (call.args[i] - 10) * LastGlyph
            /\ (call.args[i] - 10) * LastGlyph < (result[i] + 1) * (255 - 10)
            /\ result[i] = LastGlyph <=> call.args[i] = 255

\* brightness 30, where the quotient is 0.73, got index 0, and brightness
\* 255 the last index
C12_Witness ==
    /\ call.fn = "GlyphIndex" /\ call.args = << 30, 255 >>
    /\ result = << 0, 9 >>

\* C13: for brightness values b1 <= b2 in 10..255 the index computed for
\* b1 is at most the index computed for b2, and every index is in 0..9.
C13_GlyphIndexMonotonic ==
    call.fn = "GlyphIndex" =>
        /\ \A i \in 1 .. Len(result) : result[i] \in 0 .. 9
        /\ Len(result) = 2 => result[1] <= result[2]

\* brightness 37 and 38 are on the two sides of the first step of the ramp
C13_Witness ==
    /\ call.fn = "GlyphIndex" /\ call.args = << 37, 38 >>
    /\ result = << 0, 1 >>

\* C14: for every colour with channels in 0..255 compressColor floors each
\* channel, independently of the others, to a multiple of 64, so that
\* each channel of the colour it returns is one of 0, 64, 128, 192, and
\* quantising the colour it returned returns that colour again.
C14_QuantiseIdempotent ==
    (call.fn = "compressColor" /\ result # << >>) =>
        /\ Len(result[1]) = 7 /\ SubSeq(result[1], 1, 1) = "#"
        /\ \A k \in 1 .. 3 :
            LET c == call.args[1][k]
                q == ParseColor(result[1])[k]
            IN  /\ q \in { 0, 64, 128, 192 }
                /\ q <= c /\ c < q + 64
        /\ Len(result) = 2 => result[2] = result[1]

\* (200, 64, 63) became #c04000, and #c04000 quantised is #c04000
C14_Witness ==
    /\ call.fn = "compressColor" /\ call.args = << << 200, 64, 63 >> >>
    /\ result = << "#c04000", "#c04000" >>

\* resizeFrame has been called on a frame of this shape and has returned
Resized == call.fn = "resizeFrame" /\ result # << >>
SourceHeight == call.args[1]
SourceWidth == call.args[2]
TargetWidth == call.args[3]

\* newWidth * (height / width) * 0.55 is the fraction ExactNum / ExactDen
ExactNum == 11 * TargetWidth * SourceHeight
ExactDen == 20 * SourceWidth

\* that fraction rounded to the nearest integer, a tie to the even one
ExactRounded ==
    IF 2 * (ExactNum % ExactDen) > ExactDen
            \/ (2 * (ExactNum % ExactDen) = ExactDen /\ (ExactNum \div ExactDen) % 2 = 1)
    THEN (ExactNum \div ExactDen) + 1
    ELSE ExactNum \div ExactDen

\* C15, as stated: for a source frame of width w > 0 and height h > 0 and
\* a target width W, resizeFrame returns a frame of width W and height
\* round(W * (h / w) * 0.55).
C15_HeightIsRounded ==
    Resized => /\ result[1].ok
               /\ result[1].w = TargetWidth
               /\ result[1].h = ExactRounded

\* C15, amended: resizeFrame returns a frame of width W and height
\* int(W * (h / w) * 0.55), the product truncated, not rounded: the
\* integer part of the exact product, or one less where the exact product
\* is an integer and the floating-point product falls short of it.  When
\* that height is 0 no frame is returned: cv2.resize raises.
C15_HeightIsTruncated ==
    Resized =>
        IF result[1].ok
        THEN /\ result[1].w = TargetWidth
             /\ result[1].h >= 1
             /\ \/ result[1].h = ExactNum \div ExactDen
                \/ /\ ExactNum % ExactDen = 0
                   /\ result[1].h = (ExactNum \div ExactDen) - 1
        ELSE \/ ExactNum \div ExactDen = 0
             \/ ExactNum = ExactDen

\* a 640 x 480 frame at width 150: 61.875 became 61 rows, not 62
C15_Witness ==
    /\ call.fn = "resizeFrame" /\ call.args = << 480, 640, 150 >>
    /\ result = << [ok |-> TRUE, h |-> 61, w |-> 150] >>

\* C16, as stated: the shape resizeFrame returns satisfies
\* |outHeight / outWidth - 0.55 * inHeight / inWidth| < 1 / outWidth, that
\* is |outHeight * ExactDen - ExactNum| < ExactDen.
C16_AspectWithinOneRow ==
    (Resized /\ result[1].ok) =>
        Abs(result[1].h * ExactDen - ExactNum) < ExactDen

\* C16, amended: the shape resizeFrame returns satisfies
\* |outHeight / outWidth - 0.55 * inHeight / inWidth| <= 1 / outWidth, and
\* outHeight / outWidth is never the larger of the two.
C16_AspectWithinOneRowOrEqual ==
    (Resized /\ result[1].ok) =>
        /\ Abs(result[1].h * ExactDen - ExactNum) <= ExactDen
        /\ result[1].h * ExactDen <= ExactNum

\* a frame 15 wide and 146 high at width 150: the exact product is 803,
\* the floating-point product is just below it and the frame has 802 rows
C16_Witness ==
    /\ call.fn = "resizeFrame" /\ call.args = << 146, 15, 150 >>
    /\ ExactNum = 803 * ExactDen
    /\ result = << [ok |-> TRUE, h |-> 802, w |-> 150] >>


(***************************************************************************)
(* No frame, device failure, shutdown, the diff cache: claims C17 - C20.   *)
(***************************************************************************)

\* a step that is one activation of updateCanvas ending with no frame
NoFrameTick == rpc = "render" /\ frame = None /\ rpc' = "idle"

\* C17: an activation of updateCanvas that got None from getFrame
\* performs no display operation, leaves lastFrame, charMap and the
\* canvas as they are, schedules exactly one further activation and
\* returns: it can always take that step at once, it never waits for a
\* frame, and the activation it scheduled is the only one pending.  This
\* is what every activation does while no frame has been stored.
C17_NoFrameReschedules ==
    /\ [][NoFrameTick =>
            /\ tickOps' = << >>
            /\ lastFrame' = lastFrame /\ charMap' = charMap /\ items' = items
            /\ afterQueue = 0 /\ afterQueue' = 1]_vars
    /\ []((Alive /\ rpc = "render" /\ frame = None) => ENABLED U_NoFrame)
    /\ []((Alive /\ rpc = "idle") => (afterQueue = 1 /\ ENABLED AfterFires))
    /\ []((rpc = "render" /\ stored = << >>) => frame = None)

\* an activation found no frame and has rescheduled itself, while the
\* capture thread holds its first frame and has not stored it yet
C17_Witness ==
    /\ rpc = "idle" /\ frame = None /\ afterQueue = 1 /\ tickOps = << >>
    /\ fpc = "acquire" /\ fframe # None /\ currentFrame = None

\* C18: when the device cannot be opened or a read fails, the renderer
\* stops updating and keeps running.  The frame stored last stays the last
\* one; while none was ever stored there is no item, no handle and no
\* lastFrame entry; a tick that renders the last stored frame after a
\* tick that rendered it performs no display operation and changes
\* nothing; and every activation goes on without waiting or failing:
\* getFrame gets the lock at once, and the activation ends with exactly
\* one activation scheduled, which Tk can start.
C18_FailureStopsUpdates ==
    /\ [][readFailed => (stored' = stored /\ currentFrame' = currentFrame)]_vars
    /\ [](stored = << >> =>
            (items = << >> /\ charMap = EmptyDict /\ lastFrame = EmptyDict))
    /\ [][(Tick /\ readFailed /\ stored = << frame.data >> /\ lastTick = stored) =>
            /\ tickOps' = << >>
            /\ lastFrame' = lastFrame /\ charMap' = charMap /\ items' = items]_vars
    /\ [][(readFailed /\ (Tick \/ NoFrameTick)) => afterQueue' = 1]_vars
    /\ []((readFailed /\ Alive) =>
            /\ rpc = "acquire" => ENABLED G_Acquire
            /\ rpc = "copy" => ENABLED G_Copy
            /\ rpc = "release" => ENABLED G_Release
            /\ rpc = "idle" => ENABLED AfterFires)

\* a read failed after the grey frame was stored; the grey frame has been
\* rendered twice since and the second tick did nothing
C18_Witness ==
    /\ readFailed /\ isRunning /\ fpc = "done"
    /\ rpc = "idle" /\ stored = << "grey" >> /\ lastTick = stored /\ repeated
    /\ tickOps = << >> /\ Len(items) = Cardinality(Grid("grey"))

\* fetcher.stop() has released the device, and has returned
StopReturned == rpc \in { "destroy", "exited" }

\* C19: in every interleaving of stop() with the capture thread, the
\* capture thread never calls read on the device after stop() has
\* released it and never stores a frame into currentFrame after stop()
\* has returned.
C19_NoReadOrStoreAfterStop ==
    /\ [][(fpc = "read" /\ fpc' = "reading") => ~StopReturned]_vars
    /\ [][(fpc = "store" /\ fpc' = "release") => ~StopReturned]_vars

\* C20: for every position that has a handle, the glyph and the colour
\* its item shows are the position's lastFrame entry, after every tick
\* (and at every other moment): what the diff compares against is what is
\* on the screen.
C20_ScreenMatchesLastFrame ==
    \A pos \in DOMAIN charMap :
        /\ pos \in DOMAIN lastFrame
        /\ charMap[pos] \in 1 .. Len(items)
        /\ << items[charMap[pos]].text, items[charMap[pos]].fill >> = lastFrame[pos]

\* the tinted frame was rendered over another one: the item of (0, 0) was
\* given a new glyph and a new colour in place
C20_Witness ==
    /\ rpc = "idle" /\ lastTick = << "tinted" >>
    /\ << 0, 0 >> \in DOMAIN charMap
    /\ lastFrame[<< 0, 0 >>] = << "-", "#c08080" >>
    /\ \E i \in 1 .. Len(tickOps) :
            tickOps[i].op = "itemconfig" /\ tickOps[i].pos = << 0, 0 >>

=============================================================================
